---------------------------- MODULE Spec2Model ----------------------------
(***************************************************************************)
(* The telemetry session of bee_map (src/src/MapView.tsx): the broker      *)
(* connection lifecycle, topic subscription, message decoding, the         *)
(* position log and its sorted view.                                       *)
(*                                                                         *)
(* The browser runs one handler at a time, so every action below is one    *)
(* handler run to completion, together with the re-render and the effects  *)
(* React runs for the state it changed.  The MQTT client library and the   *)
(* broker are the environment: they deliver connect acknowledgments,       *)
(* subscribe/unsubscribe acknowledgments, messages, errors and closes.     *)
(***************************************************************************)
EXTENDS Integers, Sequences, FiniteSets, TLC

VARIABLES
    status,                 \* useState status (MapView.tsx:169)
    lastError,              \* useState lastError (170)
    topic,                  \* useState topic: the desired topic (171)
    brokerUrl,              \* useState brokerUrl (172)
    markers,                \* useState markers: the position log (161)
    sortedMarkers,          \* the sorted view computed by the last render (400)
    clientRef,              \* index into clients of clientRef.current, 0 = null (177)
    activeRef,              \* activeRef.current (178)
    reconnectTimerRef,      \* index into reconnectTimers of the handle held, 0 = null (179)
    shouldReconnectRef,     \* shouldReconnectRef.current (180)
    initialConnectTimerRef, \* the handle held: of a "pending" timer, or "stale" (181)
    lastSubscribedTopicRef, \* lastSubscribedTopicRef.current: the active topic (182)
    clients,                \* the MQTT client objects that can still emit events
    reconnectTimers,        \* pending 1500 ms timers, each with the closure it captured
    initialTimers,          \* number of pending warm-up timers (oldest fires first)
    configState,            \* "pending" until the config fetch resolved, then "done"
    mounted,                \* FALSE once the component is unmounted
    inflight,               \* the payload of the message being delivered, or NoMessage
    outcome,                \* history: how the last run of the message handler ended
    segments,               \* the trail drawn from the sorted view
    warmUpAttempted,        \* history: a warm-up timer has made a connection attempt
    bus,                    \* the ingest bridge: state of its shared MQTT client
    requests,               \* the ingest bridge: the requests handled, oldest first
    now,                    \* the value Date.now() returns
    engine,                 \* the JavaScript engine running Array.prototype.sort
    created                 \* history: mqtt.connect calls made by the last step

vars == <<status, lastError, topic, brokerUrl, markers, sortedMarkers, clientRef,
          activeRef, reconnectTimerRef, shouldReconnectRef, initialConnectTimerRef,
          lastSubscribedTopicRef, clients, reconnectTimers, initialTimers,
          configState, mounted, inflight, outcome, segments, now, engine, created,
          warmUpAttempted, bus, requests>>

sessionVars == <<status, lastError, topic, brokerUrl, clientRef, activeRef,
                 reconnectTimerRef, shouldReconnectRef, initialConnectTimerRef,
                 lastSubscribedTopicRef, clients, reconnectTimers, initialTimers,
                 configState, mounted, created, warmUpAttempted>>

logVars == <<markers, sortedMarkers, segments, inflight, outcome>>

bridgeVars == <<bus, requests>>

----------------------------------------------------------------------------
(* Bounds of the model.                                                    *)

MaxClients == 2     \* client objects that can still emit events, at once
MaxWarm == 2        \* warm-up timers pending at once
MaxOps == 1         \* subscribe/unsubscribe requests in flight on one client
MaxLog == 2         \* records in the position log
MaxSorted == 3      \* records in a log handed to the sort on its own
MaxRequests == 2    \* requests the ingest bridge handles in one run

----------------------------------------------------------------------------
(* Values.                                                                 *)

DEFAULT_TOPIC == "bee_map/#"
DEFAULT_MQTT_URL == "wss://test.mosquitto.org:8081/mqtt"

Topics == {DEFAULT_TOPIC, "other/#"}
Urls == {DEFAULT_MQTT_URL, "wss://other"}

Null == "null"          \* JavaScript null
Undefined == "undefined" \* JavaScript undefined, also an absent object field
ErrMsg == "error message"
NoMessage == [t |-> "no message"]

Statuses == {"connecting", "connected", "disconnected", "error", "subscribe error",
             "disconnected (manual)", "disconnected (cancelled)"}


----------------------------------------------------------------------------
(* The MQTT client objects.  A client is kept while it can still emit an   *)
(* event; a force-closed client whose stream has closed is dropped.        *)

\* mqtt.connect(brokerUrl, MQTT_OPTIONS) (281): the handlers registered on the
\* client close over the topic of the render that created it.  The URL it connects
\* to decides nothing below and is not recorded.
NewClient(t) ==
    [topic |-> t, state |-> "connecting", ended |-> FALSE, closeDue |-> FALSE,
     flushErr |-> FALSE, subs |-> {}, ops |-> <<>>]

\* When a stream closes the library fails the requests in flight before it emits
\* 'close': a failed resubscribe sets lastError (435); the callback of a failed
\* unsubscribe (432) subscribes again, which a force-closed client refuses at once
\* and a client that lost its transport queues.
FlushSetsError(ops, ended) ==
    \E k \in 1..Len(ops) :
        \/ ops[k].kind = "sub" /\ ops[k].origin = "resub"
        \/ ops[k].kind = "unsub" /\ ended

\* client.end(true): the stream is destroyed; if it was open its close event is
\* still to come, and the requests in flight are failed when it comes (flushErr
\* keeps what their callbacks will do).
EndClient(c) ==
    [c EXCEPT !.ended = TRUE, !.closeDue = (c.state # "closed"),
              !.flushErr = FlushSetsError(c.ops, TRUE),
              !.state = "closed", !.subs = {}, !.ops = <<>>]

CanEmit(c) == ~c.ended \/ c.closeDue

Live(cs) == SelectSeq(cs, CanEmit)

\* The index of client ref of cs in Live(cs).
LiveRef(cs, ref) == IF ref = 0 THEN 0 ELSE Len(Live(SubSeq(cs, 1, ref)))

RemoveAt(s, k) == SubSeq(s, 1, k - 1) \o SubSeq(s, k + 1, Len(s))

\* setState of a component: dropped once the component is unmounted.
SetState(old, new) == IF mounted THEN new ELSE old

----------------------------------------------------------------------------
(* connectToEndpoint, disconnectClient and the three control callbacks.    *)
(* Each returns the values it leaves in the cells it writes.               *)

\* clearReconnectTimer (254-259)
ClearedTimers == IF reconnectTimerRef # 0
                 THEN RemoveAt(reconnectTimers, reconnectTimerRef)
                 ELSE reconnectTimers

\* connectToEndpoint without lines 276-279: the client held as current is left
\* as it is when the new one is created.
connectToEndpoint_KeepsOld(t, st) ==
    IF ~activeRef
    THEN [status |-> st, lastError |-> lastError, clients |-> clients,
          clientRef |-> clientRef, created |-> 0]
    ELSE LET all == Append(Live(clients), NewClient(t))
         IN  [status |-> SetState(st, "connecting"), lastError |-> SetState(lastError, Null),
              clients |-> all, clientRef |-> Len(all), created |-> 1]

\* connectToEndpoint (271-283) of the render whose topic is t, called when status
\* is st.
connectToEndpoint(t, st) ==
    IF ~activeRef
    THEN [status |-> st, lastError |-> lastError, clients |-> clients,
          clientRef |-> clientRef, created |-> 0]
    ELSE LET torn == IF clientRef # 0
                     THEN [clients EXCEPT ![clientRef] = EndClient(@)]
                     ELSE clients
             all == Append(Live(torn), NewClient(t))
         IN  [status |-> SetState(st, "connecting"), lastError |-> SetState(lastError, Null),
              clients |-> all, clientRef |-> Len(all), created |-> 1]

\* Room for the client connectToEndpoint creates.
RoomToConnect ==
    LET torn == IF clientRef # 0
                THEN [clients EXCEPT ![clientRef] = EndClient(@)]
                ELSE clients
    IN  Len(Live(torn)) < MaxClients

\* connectRef.current (357-361): always the closure of the latest render.
connectRefCall ==
    /\ shouldReconnectRef' = TRUE
    /\ LET r == connectToEndpoint(topic, SetState(status, "connecting"))
       IN  /\ status' = r.status
           /\ lastError' = r.lastError
           /\ clients' = r.clients
           /\ clientRef' = r.clientRef
           /\ created' = r.created

\* disconnectClient(reason) (261-269)
disconnectClient(reason) ==
    /\ reconnectTimers' = ClearedTimers
    /\ reconnectTimerRef' = 0
    /\ clients' = IF clientRef # 0
                  THEN Live([clients EXCEPT ![clientRef] = EndClient(@)])
                  ELSE clients
    /\ clientRef' = 0
    /\ status' = SetState(status, reason)

\* The body of the connection effect (251-379): it runs after every render that
\* changed brokerUrl or topic, has no cleanup, and schedules a warm-up timer.
RunConnectionEffect ==
    /\ activeRef' = TRUE
    /\ initialTimers' = initialTimers + 1
    /\ initialConnectTimerRef' = "pending"

\* clearTimeout(initialConnectTimerRef.current) (388-391): only a pending timer is
\* cleared; the handle of a timer that fired is stale.
InitialTimersCleared == IF initialConnectTimerRef = "pending"
                        THEN initialTimers - 1 ELSE initialTimers

----------------------------------------------------------------------------
(* The state after the first render and its effects: no client yet, one    *)
(* warm-up timer pending, the config fetch in flight.                      *)

Clock == {1, 2}
Engines == {"v8", "spidermonkey"}

InitSession ==
    /\ status = "connecting"
    /\ lastError = Null
    /\ topic = DEFAULT_TOPIC
    /\ brokerUrl = DEFAULT_MQTT_URL
    /\ clientRef = 0
    /\ activeRef = TRUE
    /\ reconnectTimerRef = 0
    /\ shouldReconnectRef = TRUE
    /\ initialConnectTimerRef = "pending"
    /\ lastSubscribedTopicRef = DEFAULT_TOPIC
    /\ clients = <<>>
    /\ reconnectTimers = <<>>
    /\ initialTimers = 1
    /\ configState = "pending"
    /\ mounted = TRUE
    /\ created = 0
    /\ warmUpAttempted = FALSE

Init ==
    /\ InitSession
    /\ markers = <<>>
    /\ sortedMarkers = <<>>
    /\ segments = <<>>
    /\ inflight = NoMessage
    /\ outcome = "none"
    /\ now = 1
    /\ engine = "v8"
    /\ bus = "connecting"
    /\ requests = <<>>

----------------------------------------------------------------------------
(* User requests.                                                          *)

\* The Connect button (671), shown unless status is connected or connecting.
Connect ==
    /\ mounted
    /\ status \notin {"connected", "connecting"}
    /\ RoomToConnect
    /\ connectRefCall
    /\ UNCHANGED <<topic, brokerUrl, activeRef, reconnectTimerRef, initialConnectTimerRef,
                   lastSubscribedTopicRef, reconnectTimers, initialTimers, configState,
                   mounted, now, engine, bridgeVars, warmUpAttempted, logVars>>

\* The Disconnect button (663), shown while status is connected: disconnectRef (363-366).
Disconnect ==
    /\ mounted
    /\ status = "connected"
    /\ shouldReconnectRef' = FALSE
    /\ disconnectClient("disconnected (manual)")
    /\ created' = 0
    /\ UNCHANGED <<lastError, topic, brokerUrl, activeRef, initialConnectTimerRef,
                   lastSubscribedTopicRef, initialTimers, configState, mounted, now,
                   engine, bridgeVars, warmUpAttempted, logVars>>

\* The Cancel button (667), shown while status is connecting: cancelConnectRef (368-371).
Cancel ==
    /\ mounted
    /\ status = "connecting"
    /\ shouldReconnectRef' = FALSE
    /\ disconnectClient("disconnected (cancelled)")
    /\ created' = 0
    /\ UNCHANGED <<lastError, topic, brokerUrl, activeRef, initialConnectTimerRef,
                   lastSubscribedTopicRef, initialTimers, configState, mounted, now,
                   engine, bridgeVars, warmUpAttempted, logVars>>

\* The resubscribe effect (427-443) after a render that changed topic to t: the
\* clients as it leaves them.
Resubscribed(t, prevTopic) ==
    IF clientRef = 0 \/ clients[clientRef].state # "connected" \/ prevTopic = t
    THEN clients
    ELSE [clients EXCEPT ![clientRef].ops =
              Append(@, [kind |-> "unsub", topic |-> prevTopic, other |-> t,
                         origin |-> "resub", held |-> FALSE])]

RoomToResubscribe ==
    clientRef # 0 => Len(clients[clientRef].ops) < MaxOps

\* The topic field (653), enabled unless status is connected or connecting:
\* setTopic, then the connection effect and the resubscribe effect.
SetTopic(t) ==
    /\ mounted
    /\ status \notin {"connected", "connecting"}
    /\ t # topic
    /\ initialTimers < MaxWarm
    /\ RoomToResubscribe
    /\ topic' = t
    /\ RunConnectionEffect
    /\ clients' = Resubscribed(t, lastSubscribedTopicRef)
    /\ created' = 0
    /\ UNCHANGED <<status, lastError, brokerUrl, clientRef, reconnectTimerRef,
                   shouldReconnectRef, lastSubscribedTopicRef, reconnectTimers,
                   configState, mounted, now, engine, bridgeVars, warmUpAttempted, logVars>>

\* The broker URL field (640): setBrokerUrl, then the connection effect.
SetBrokerUrl(u) ==
    /\ mounted
    /\ status \notin {"connected", "connecting"}
    /\ u # brokerUrl
    /\ initialTimers < MaxWarm
    /\ brokerUrl' = u
    /\ RunConnectionEffect
    /\ created' = 0
    /\ UNCHANGED <<status, lastError, topic, clientRef, reconnectTimerRef,
                   shouldReconnectRef, lastSubscribedTopicRef, clients, reconnectTimers,
                   configState, mounted, now, engine, bridgeVars, warmUpAttempted, logVars>>

\* The config fetch resolves (198-207) with mqttUrl u and mqttTopic t, each
\* Undefined when absent or not a non-blank string; a failed fetch is both Undefined.
\* The ref is assigned in the handler; the effects run after the render.
ConfigLoaded(u, t) ==
    /\ mounted
    /\ configState = "pending"
    /\ configState' = "done"
    /\ brokerUrl' = IF u # Undefined THEN u ELSE brokerUrl
    /\ topic' = IF t # Undefined THEN t ELSE topic
    /\ lastSubscribedTopicRef' = IF t # Undefined THEN t ELSE lastSubscribedTopicRef
    /\ IF brokerUrl' # brokerUrl \/ topic' # topic
       THEN initialTimers < MaxWarm /\ RunConnectionEffect
       ELSE UNCHANGED <<activeRef, initialTimers, initialConnectTimerRef>>
    /\ clients' = IF topic' # topic
                  THEN Resubscribed(topic', lastSubscribedTopicRef')
                  ELSE clients
    /\ created' = 0
    /\ UNCHANGED <<status, lastError, clientRef, reconnectTimerRef, shouldReconnectRef,
                   reconnectTimers, mounted, now, engine, bridgeVars, warmUpAttempted, logVars>>

\* The cleanup without the assignment of line 383: activeRef stays as it was.
Teardown_LeavesActive ==
    /\ mounted
    /\ mounted' = FALSE
    /\ reconnectTimers' = ClearedTimers
    /\ reconnectTimerRef' = 0
    /\ initialTimers' = InitialTimersCleared
    /\ initialConnectTimerRef' = "stale"
    /\ clients' = IF clientRef # 0
                  THEN Live([clients EXCEPT ![clientRef] = EndClient(@)])
                  ELSE clients
    /\ clientRef' = 0
    /\ created' = 0
    /\ UNCHANGED <<status, lastError, topic, brokerUrl, activeRef, shouldReconnectRef,
                   lastSubscribedTopicRef, configState, now, engine, bridgeVars,
                   warmUpAttempted, logVars>>

\* Unmount: the cleanup of the teardown effect (381-398) and of the config effect.
Teardown ==
    /\ mounted
    /\ mounted' = FALSE
    /\ activeRef' = FALSE
    /\ reconnectTimers' = ClearedTimers
    /\ reconnectTimerRef' = 0
    /\ initialTimers' = InitialTimersCleared
    /\ initialConnectTimerRef' = "stale"
    /\ clients' = IF clientRef # 0
                  THEN Live([clients EXCEPT ![clientRef] = EndClient(@)])
                  ELSE clients
    /\ clientRef' = 0
    /\ created' = 0
    /\ UNCHANGED <<status, lastError, topic, brokerUrl, shouldReconnectRef,
                   lastSubscribedTopicRef, configState, now, engine, bridgeVars, warmUpAttempted, logVars>>

----------------------------------------------------------------------------
(* Timers.                                                                 *)

\* The warm-up callback without the reconnect flag in its guard.
WarmUpConnects_IgnoresFlag == activeRef

\* The guard of the warm-up callback (375).
WarmUpConnects == activeRef /\ shouldReconnectRef

\* A warm-up timer fires (374-378).  All have the same delay, so the oldest fires
\* first; the handle the ref holds is the newest.
InitialTimerFires ==
    /\ initialTimers > 0
    /\ initialTimers' = initialTimers - 1
    /\ initialConnectTimerRef' =
           IF initialTimers = 1 /\ initialConnectTimerRef = "pending"
           THEN "stale" ELSE initialConnectTimerRef
    /\ IF WarmUpConnects
       THEN RoomToConnect /\ connectRefCall
       ELSE /\ created' = 0
            /\ UNCHANGED <<status, lastError, clients, clientRef, shouldReconnectRef>>
    /\ warmUpAttempted' = (warmUpAttempted \/ created' = 1)
    /\ UNCHANGED <<topic, brokerUrl, activeRef, reconnectTimerRef,
                   lastSubscribedTopicRef, reconnectTimers, configState, mounted, now,
                   engine, bridgeVars, logVars>>

\* Reconnect timer k fires (349-352): its callback is the connectToEndpoint of the
\* render that created the client whose close scheduled it.
ReconnectTimerFires(k) ==
    /\ k \in 1..Len(reconnectTimers)
    /\ activeRef => RoomToConnect
    /\ reconnectTimers' = RemoveAt(reconnectTimers, k)
    /\ reconnectTimerRef' = 0
    /\ LET r == connectToEndpoint(reconnectTimers[k].topic, status)
       IN  /\ status' = r.status
           /\ lastError' = r.lastError
           /\ clients' = r.clients
           /\ clientRef' = r.clientRef
           /\ created' = r.created
    /\ UNCHANGED <<topic, brokerUrl, activeRef, shouldReconnectRef, initialConnectTimerRef,
                   lastSubscribedTopicRef, initialTimers, configState, mounted, now,
                   engine, bridgeVars, warmUpAttempted, logVars>>

----------------------------------------------------------------------------
(* Events of client i.  A request in flight is [kind, topic, origin, other,  *)
(* held]: a subscribe or unsubscribe for topic, issued by the connect       *)
(* handler or by the resubscribe effect.  For an unsubscribe, other is the  *)
(* topic its callback subscribes to; for the subscribe that callback        *)
(* issues, other is the topic just unsubscribed and held tells whether the  *)
(* broker held that subscription until then.                                *)

IsOpen(c) == ~c.ended /\ c.state \in {"connecting", "connected"}

\* 'connect' (284-294): the broker acknowledged; the handler subscribes to the
\* topic it closed over.
OnConnect(i) ==
    /\ i \in 1..Len(clients)
    /\ ~clients[i].ended
    /\ clients[i].state = "connecting"
    /\ status' = SetState(status, "connected")
    /\ clients' = [clients EXCEPT ![i].state = "connected",
                                  ![i].ops = Append(@, [kind |-> "sub",
                                                        topic |-> clients[i].topic,
                                                        other |-> clients[i].topic,
                                                        origin |-> "connect",
                                                        held |-> FALSE])]
    /\ created' = 0
    /\ UNCHANGED <<lastError, topic, brokerUrl, clientRef, activeRef, reconnectTimerRef,
                   shouldReconnectRef, initialConnectTimerRef, lastSubscribedTopicRef,
                   reconnectTimers, initialTimers, configState, mounted, now, engine, bridgeVars, warmUpAttempted,
                   logVars>>

\* The subscribe callbacks: of the connect handler (286-293) and of the
\* resubscribe effect (433-441).
SubscribeCallback(op, ok) ==
    IF ok
    THEN [status |-> status,
          lastError |-> IF op.origin = "resub" THEN SetState(lastError, Null) ELSE lastError,
          lastSubscribedTopicRef |-> op.topic]
    ELSE [status |-> SetState(status, "subscribe error"),
          lastError |-> IF op.origin = "resub" THEN SetState(lastError, ErrMsg) ELSE lastError,
          lastSubscribedTopicRef |-> lastSubscribedTopicRef]

\* The broker answers the oldest request of client i, a subscribe: granted or refused.
SubAck(i, ok) ==
    /\ i \in 1..Len(clients)
    /\ ~clients[i].ended
    /\ clients[i].state = "connected"
    /\ clients[i].ops # <<>>
    /\ Head(clients[i].ops).kind = "sub"
    /\ LET op == Head(clients[i].ops)
           r == SubscribeCallback(op, ok)
       IN  /\ clients' = [clients EXCEPT
                  ![i].ops = Tail(@),
                  ![i].subs = IF ok THEN @ \cup {op.topic} ELSE @]
           /\ status' = r.status
           /\ lastError' = r.lastError
           /\ lastSubscribedTopicRef' = r.lastSubscribedTopicRef
    /\ created' = 0
    /\ UNCHANGED <<topic, brokerUrl, clientRef, activeRef, reconnectTimerRef,
                   shouldReconnectRef, initialConnectTimerRef, reconnectTimers,
                   initialTimers, configState, mounted, now, engine, bridgeVars, warmUpAttempted, logVars>>

\* The broker answers the oldest request of client i, an unsubscribe; its callback
\* (432-433) subscribes to the new topic.
UnsubAck(i) ==
    /\ i \in 1..Len(clients)
    /\ ~clients[i].ended
    /\ clients[i].state = "connected"
    /\ clients[i].ops # <<>>
    /\ Head(clients[i].ops).kind = "unsub"
    /\ LET op == Head(clients[i].ops)
       IN  clients' = [clients EXCEPT
               ![i].subs = @ \ {op.topic},
               ![i].ops = Append(Tail(@), [kind |-> "sub", topic |-> op.other,
                                           other |-> op.topic, origin |-> "resub",
                                           held |-> op.topic \in clients[i].subs])]
    /\ created' = 0
    /\ UNCHANGED <<status, lastError, topic, brokerUrl, clientRef, activeRef,
                   reconnectTimerRef, shouldReconnectRef, initialConnectTimerRef,
                   lastSubscribedTopicRef, reconnectTimers, initialTimers, configState,
                   mounted, now, engine, bridgeVars, warmUpAttempted, logVars>>

\* 'error' (340-344)
OnError(i) ==
    /\ i \in 1..Len(clients)
    /\ IsOpen(clients[i])
    /\ status' = SetState(status, "error")
    /\ lastError' = SetState(lastError, ErrMsg)
    /\ created' = 0
    /\ UNCHANGED <<topic, brokerUrl, clientRef, activeRef, reconnectTimerRef,
                   shouldReconnectRef, initialConnectTimerRef, lastSubscribedTopicRef,
                   clients, reconnectTimers, initialTimers, configState, mounted, now,
                   engine, bridgeVars, warmUpAttempted, logVars>>

\* The close handler without the pending-timer check in its guard.
CloseArmsTimer_Rearms == activeRef /\ shouldReconnectRef

\* The guard of the close handler (348).
CloseArmsTimer == activeRef /\ shouldReconnectRef /\ reconnectTimerRef = 0

\* 'close' (346-354): the stream of client i closed, either the transport of an
\* open client or, late, the stream that client.end(true) destroyed.
OnClose(i) ==
    /\ i \in 1..Len(clients)
    /\ IsOpen(clients[i]) \/ (clients[i].ended /\ clients[i].closeDue)
    /\ LET c == clients[i]
           closed == [clients EXCEPT ![i].state = "closed", ![i].closeDue = FALSE,
                                     ![i].flushErr = FALSE, ![i].subs = {},
                                     ![i].ops = <<>>]
       IN  /\ clients' = Live(closed)
           /\ clientRef' = LiveRef(closed, clientRef)
           /\ lastError' = IF c.flushErr \/ FlushSetsError(c.ops, c.ended)
                           THEN SetState(lastError, ErrMsg)
                           ELSE lastError
           /\ status' = SetState(status, "disconnected")
           /\ IF CloseArmsTimer
              THEN /\ reconnectTimers' = Append(reconnectTimers, [topic |-> c.topic])
                   /\ reconnectTimerRef' = Len(reconnectTimers')
              ELSE UNCHANGED <<reconnectTimers, reconnectTimerRef>>
    /\ created' = 0
    /\ UNCHANGED <<topic, brokerUrl, activeRef, shouldReconnectRef,
                   initialConnectTimerRef, lastSubscribedTopicRef, initialTimers,
                   configState, mounted, now, engine, bridgeVars, warmUpAttempted, logVars>>

----------------------------------------------------------------------------
(* JSON values, tagged with what typeof gives (null is tagged "null").     *)

JUndefined == [t |-> "undefined"]
JNull == [t |-> "null"]
JStr(x) == [t |-> "string", v |-> x]
JNum(n) == [t |-> "number", v |-> n]

\* ToBoolean of the values of the model: objects, non-empty strings and non-zero
\* numbers are truthy.
Truthy(x) == x.t \in {"object", "string", "number"}

\* x.name: undefined when x has no such property; reading a property of null or
\* undefined throws a TypeError.
Throws(x) == x.t \in {"null", "undefined"}
Get(x, name) == IF x.t = "object" /\ name \in DOMAIN x THEN x[name] ELSE JUndefined

\* The string a template literal makes of a value.
TemplateString(x) ==
    CASE x.t = "undefined" -> "undefined"
      [] x.t = "null" -> "null"
      [] x.t = "object" -> "[object Object]"
      [] OTHER -> x.v

DeviceIds == {JStr("A"), JStr("B")}

Envelopes ==
    [t : {"object"},
     DevEUI : DeviceIds,
     devEui : {JUndefined, JStr("A")},
     DevLAT : {JStr("north"), JNum(1)},
     DevLON : {JUndefined, JNum(2)},
     DevLocRadius : {JNum(5)}]

FieldValues == {JUndefined, JNull, JNum(7)} \cup Envelopes

\* What JSON.parse makes of a payload; Unparsable is a payload it throws on.
Unparsable == [t |-> "unparsable"]
Payloads ==
    {Unparsable, JNull, JNum(7)}
    \cup [t : {"object"}, DevEUI_location : FieldValues, DevEUI_uplink : FieldValues]

----------------------------------------------------------------------------
(* The message handler.                                                    *)

\* The selection with the two shapes in the other order.
SelectEnvelope_PrefersUplink(message) ==
    IF Truthy(Get(message, "DevEUI_uplink"))
    THEN Get(message, "DevEUI_uplink")
    ELSE Get(message, "DevEUI_location")

\* The envelope the handler selects (299-301).
SelectEnvelope(message) ==
    IF Truthy(Get(message, "DevEUI_location"))
    THEN Get(message, "DevEUI_location")
    ELSE Get(message, "DevEUI_uplink")

\* The checks of lines 305-311: TRUE when the handler goes on to build a marker.
HasNumericCoords(msg) ==
    Get(msg, "DevLAT").t = "number" /\ Get(msg, "DevLON").t = "number"

\* The marker the handler builds (313-331); receivedAt, the display string of
\* receivedAtTs, is left out.
Marker(msg, ts) ==
    [id |-> <<TemplateString(Get(msg, "devEui")), ts>>,
     devEui |-> Get(msg, "DevEUI"),
     coords |-> <<Get(msg, "DevLAT").v, Get(msg, "DevLON").v>>,
     devLocRadius |-> Get(msg, "DevLocRadius"),
     receivedAtTs |-> JNum(ts)]

\* The body of the try block (297-334) on payload p at clock value ts: the
\* marker it appends if any, and how it ends: it appended, it returned early
\* (306, 310), or a statement of it threw (JSON.parse on an unparsable payload, a
\* property read of null).
TryBlock(p, ts) ==
    IF p.t = "unparsable" \/ Throws(p)
    THEN [append |-> <<>>, ends |-> "threw"]
    ELSE LET msg == SelectEnvelope(p)
         IN  IF msg.t = "undefined" THEN [append |-> <<>>, ends |-> "returned"]
             ELSE IF Throws(msg) THEN [append |-> <<>>, ends |-> "threw"]
             ELSE IF ~HasNumericCoords(msg) THEN [append |-> <<>>, ends |-> "returned"]
             ELSE [append |-> <<Marker(msg, ts)>>, ends |-> "appended"]

\* A handler without the catch clause.
Catches_Nothing == FALSE

\* The catch clause (335-337) takes every exception and does not rethrow.
Catches == TRUE

\* A handler that hands the record to setMarkers twice.
MessageHandler_AppendsTwice(p, ts) ==
    LET r == TryBlock(p, ts)
    IN  [append |-> r.append \o r.append,
         outcome |-> IF r.ends # "threw" THEN r.ends
                     ELSE IF Catches THEN "caught" ELSE "escaped"]

\* The handler (296-338): what it appends, and its outcome: "appended",
\* "returned", "caught" or, for an exception that leaves the handler, "escaped".
MessageHandler(p, ts) ==
    LET r == TryBlock(p, ts)
    IN  [append |-> r.append,
         outcome |-> IF r.ends # "threw" THEN r.ends
                     ELSE IF Catches THEN "caught" ELSE "escaped"]


----------------------------------------------------------------------------
(* The sorted view (400-404).  Array.prototype.sort is stable for a         *)
(* consistent comparator; this comparator answers -1 both ways for two     *)
(* records without a timestamp, and then the order is the engine's.        *)

\* The comparator with the subtraction of line 403 the other way round.
compare_Descending(a, b) ==
    IF a.receivedAtTs.t = "undefined" THEN -1
    ELSE IF b.receivedAtTs.t = "undefined" THEN 1
    ELSE b.receivedAtTs.v - a.receivedAtTs.v

\* The comparator (400-404).
compare(a, b) ==
    IF a.receivedAtTs.t = "undefined" THEN -1
    ELSE IF b.receivedAtTs.t = "undefined" THEN 1
    ELSE a.receivedAtTs.v - b.receivedAtTs.v

Reverse(s) == [k \in 1..Len(s) |-> s[Len(s) + 1 - k]]

InsertAt(s, k, x) == SubSeq(s, 1, k - 1) \o <<x>> \o SubSeq(s, k, Len(s))

\* V8 (TimSort; an array shorter than 64 is one run extended by binary insertion).
\* CountAndMakeRun: the length of the run that starts the array, k elements so far.
RECURSIVE V8RunLength(_, _, _)
V8RunLength(arr, descending, k) ==
    IF k = Len(arr) THEN k
    ELSE LET order == compare(arr[k + 1], arr[k])
         IN  IF (descending /\ order >= 0) \/ (~descending /\ order < 0)
             THEN k
             ELSE V8RunLength(arr, descending, k + 1)

\* BinaryInsertionSort: where pivot goes in the sorted prefix, searching [left, right).
RECURSIVE V8InsertionPoint(_, _, _, _)
V8InsertionPoint(sorted, pivot, left, right) ==
    IF left >= right THEN left
    ELSE LET mid == left + ((right - left) \div 2)
         IN  IF compare(pivot, sorted[mid]) < 0
             THEN V8InsertionPoint(sorted, pivot, left, mid)
             ELSE V8InsertionPoint(sorted, pivot, mid + 1, right)

RECURSIVE V8InsertRest(_, _, _)
V8InsertRest(sorted, arr, start) ==
    IF start > Len(arr) THEN sorted
    ELSE V8InsertRest(
             InsertAt(sorted, V8InsertionPoint(sorted, arr[start], 1, start), arr[start]),
             arr, start + 1)

V8Sort(arr) ==
    IF Len(arr) < 2 THEN arr
    ELSE LET descending == compare(arr[2], arr[1]) < 0
             run == V8RunLength(arr, descending, 2)
             first == IF descending THEN Reverse(SubSeq(arr, 1, run))
                      ELSE SubSeq(arr, 1, run)
         IN  V8InsertRest(first, arr, run + 1)

\* SpiderMonkey (merge sort over insertion-sorted runs): it always asks
\* compare(earlier, later) and moves the later element up only on an answer > 0.
RECURSIVE SMInsertionPoint(_, _, _)
SMInsertionPoint(sorted, item, j) ==
    IF j = 0 \/ compare(sorted[j], item) <= 0 THEN j + 1
    ELSE SMInsertionPoint(sorted, item, j - 1)

RECURSIVE SMInsertRest(_, _, _)
SMInsertRest(sorted, arr, start) ==
    IF start > Len(arr) THEN sorted
    ELSE SMInsertRest(
             InsertAt(sorted, SMInsertionPoint(sorted, arr[start], Len(sorted)), arr[start]),
             arr, start + 1)

SMSort(arr) == SMInsertRest(<<>>, arr, 1)

\* [...markers].sort(compare) on the engine that runs the page.
sortMarkers(log) == IF engine = "v8" THEN V8Sort(log) ELSE SMSort(log)

\* The loop with its first iteration left out.
buildSegments_SkipsFirst(sorted) ==
    [i \in 1..(Len(sorted) - 2) |-> <<sorted[i + 1].coords, sorted[i + 2].coords>>]

\* The trail (406-411): for i from 1 below the length, one segment from the record
\* before i to record i (the source counts from 0).
buildSegments(sorted) ==
    [i \in 1..(Len(sorted) - 1) |-> <<sorted[i].coords, sorted[i + 1].coords>>]

\* latestMarker (412): the last record of the sorted view, undefined for an
\* empty view.
latestMarker ==
    IF Len(sortedMarkers) = 0 THEN JUndefined ELSE sortedMarkers[Len(sortedMarkers)]

----------------------------------------------------------------------------
(* Messages.                                                               *)

\* The broker forwards a payload to client i, which is subscribed.
Deliver(i, p) ==
    /\ i \in 1..Len(clients)
    /\ ~clients[i].ended
    /\ clients[i].state = "connected"
    /\ clients[i].subs # {}
    /\ inflight.t = "no message"
    /\ Len(markers) < MaxLog
    /\ inflight' = p
    /\ created' = 0
    /\ UNCHANGED <<status, lastError, topic, brokerUrl, clientRef, activeRef,
                   reconnectTimerRef, shouldReconnectRef, initialConnectTimerRef,
                   lastSubscribedTopicRef, clients, reconnectTimers, initialTimers,
                   configState, mounted, now, engine, bridgeVars, warmUpAttempted, markers, sortedMarkers, segments,
                   outcome>>

\* 'message' (296-338), then the render that setMarkers asks for.
OnMessage ==
    /\ inflight.t # "no message"
    /\ LET r == MessageHandler(inflight, now)
       IN  /\ markers' = SetState(markers, markers \o r.append)
           /\ outcome' = r.outcome
    /\ sortedMarkers' = sortMarkers(markers')
    /\ segments' = buildSegments(sortedMarkers')
    /\ inflight' = NoMessage
    /\ created' = 0
    /\ UNCHANGED <<status, lastError, topic, brokerUrl, clientRef, activeRef,
                   reconnectTimerRef, shouldReconnectRef, initialConnectTimerRef,
                   lastSubscribedTopicRef, clients, reconnectTimers, initialTimers,
                   configState, mounted, now, engine, bridgeVars, warmUpAttempted>>

\* Time passes, or the system clock is set.
ClockStep ==
    /\ \E t \in Clock : t # now /\ now' = t
    /\ UNCHANGED <<sessionVars, logVars, engine, bridgeVars, warmUpAttempted>>

\* A render: the component body computes the sorted view again.
Render ==
    /\ sortedMarkers' = sortMarkers(markers)
    /\ segments' = buildSegments(sortedMarkers')
    /\ UNCHANGED <<sessionVars, markers, inflight, outcome, now, engine, bridgeVars, warmUpAttempted>>

----------------------------------------------------------------------------
(* Specifications.                                                         *)

\* The session lifecycle.
Next ==
    \/ Connect
    \/ Disconnect
    \/ Cancel
    \/ \E t \in Topics : SetTopic(t)
    \/ \E u \in Urls : SetBrokerUrl(u)
    \/ \E u \in Urls \cup {Undefined}, t \in Topics \cup {Undefined} : ConfigLoaded(u, t)
    \/ Teardown
    \/ InitialTimerFires
    \/ \E k \in 1..MaxClients : ReconnectTimerFires(k)
    \/ \E i \in 1..MaxClients : OnConnect(i)
    \/ \E i \in 1..MaxClients, ok \in BOOLEAN : SubAck(i, ok)
    \/ \E i \in 1..MaxClients : UnsubAck(i)
    \/ \E i \in 1..MaxClients : OnError(i)
    \/ \E i \in 1..MaxClients : OnClose(i)

Spec == Init /\ [][Next]_vars

\* Message decoding and the log, on a session that connects and subscribes.
NextDecode ==
    \/ InitialTimerFires
    \/ \E i \in 1..MaxClients : OnConnect(i)
    \/ \E i \in 1..MaxClients : SubAck(i, TRUE)
    \/ \E i \in 1..MaxClients, p \in Payloads : Deliver(i, p)
    \/ OnMessage
    \/ ClockStep

SpecDecode == Init /\ [][NextDecode]_vars

\* A payload the handler appends a record for.
ValidSample ==
    [t |-> "object",
     DevEUI_location |-> [t |-> "object", DevEUI |-> JStr("A"), devEui |-> JStr("A"),
                          DevLAT |-> JNum(1), DevLON |-> JNum(2),
                          DevLocRadius |-> JNum(5)],
     DevEUI_uplink |-> JUndefined]

\* The payloads delivered around a teardown: one the handler throws on and one
\* it appends a record for.
SamplePayloads == {Unparsable, ValidSample}

\* The session from its first render to its teardown and after it: requests,
\* timers, the events of the clients and the messages they deliver.
NextTeardown ==
    \/ Connect
    \/ Disconnect
    \/ Cancel
    \/ \E u \in Urls \cup {Undefined}, t \in Topics \cup {Undefined} : ConfigLoaded(u, t)
    \/ Teardown
    \/ InitialTimerFires
    \/ \E k \in 1..MaxClients : ReconnectTimerFires(k)
    \/ \E i \in 1..MaxClients : OnConnect(i)
    \/ \E i \in 1..MaxClients, ok \in BOOLEAN : SubAck(i, ok)
    \/ \E i \in 1..MaxClients : OnError(i)
    \/ \E i \in 1..MaxClients : OnClose(i)
    \/ \E i \in 1..MaxClients, p \in SamplePayloads : Deliver(i, p)
    \/ OnMessage

SpecTeardown == Init /\ [][NextTeardown]_vars

\* The log under what the session does while it is mounted: requests, a topic
\* change, the config load, timers, client events and the messages that are
\* decoded into a record.
NextLog ==
    \/ Connect
    \/ Disconnect
    \/ Cancel
    \/ \E t \in Topics : SetTopic(t)
    \/ \E t \in Topics \cup {Undefined} : ConfigLoaded(Undefined, t)
    \/ InitialTimerFires
    \/ \E k \in 1..MaxClients : ReconnectTimerFires(k)
    \/ \E i \in 1..MaxClients : OnConnect(i)
    \/ \E i \in 1..MaxClients : SubAck(i, TRUE)
    \/ \E i \in 1..MaxClients : OnError(i)
    \/ \E i \in 1..MaxClients : OnClose(i)
    \/ \E i \in 1..MaxClients : Deliver(i, ValidSample)
    \/ OnMessage

SpecLog == Init /\ [][NextLog]_vars

\* The sorted view as a function of the log: any log of at most MaxSorted records,
\* with or without timestamps, on either engine.
SortRecords ==
    {[id |-> <<"undefined", 0>>, devEui |-> d,
      coords |-> IF d = JStr("A") THEN <<1, 2>> ELSE <<3, 4>>,
      devLocRadius |-> JNum(5), receivedAtTs |-> ts] :
        d \in DeviceIds, ts \in {JUndefined, JNum(1), JNum(2)}}

SortLogs == UNION {[1..n -> SortRecords] : n \in 0..MaxSorted}

InitSort ==
    /\ InitSession
    /\ markers \in SortLogs
    /\ sortedMarkers = <<>>
    /\ segments = <<>>
    /\ inflight = NoMessage
    /\ outcome = "none"
    /\ now = 1
    /\ engine \in Engines
    /\ bus = "connecting"
    /\ requests = <<>>

NextSort == Render

SpecSort == InitSort /\ [][NextSort]_vars

----------------------------------------------------------------------------
(* The ingest bridge (backend/src/server.js).  A request is what Express    *)
(* hands the handler: whether it has a body, its Content-Type, and the     *)
(* text of the body.  A JSON text is its value and whether it is written   *)
(* with spaces between tokens; parsing drops the spacing, JSON.stringify   *)
(* writes none.                                                            *)

MQTT_TOPIC_PREFIX == "bee_map"

EmptyText == [t |-> "empty"]
JsonText(v, spaced) == [t |-> "text", value |-> v, spaced |-> spaced]

EnvelopeFor(d) == [t |-> "object", DevEUI |-> d]
EnvelopeNoId == [t |-> "object"]

BodyValues ==
    [t : {"object"},
     DevEUI_location : {JUndefined, JNull, EnvelopeFor(JStr("B")), EnvelopeNoId},
     DevEUI_uplink : {JUndefined, JNull, EnvelopeFor(JStr("A"))},
     foo : {JStr("bar")}]

Texts == {EmptyText} \cup {JsonText(v, sp) : v \in BodyValues, sp \in BOOLEAN}

Requests ==
    {[hasBody |-> FALSE, contentType |-> ct, raw |-> EmptyText] :
        ct \in {"application/json", "text/plain"}}
    \cup {[hasBody |-> TRUE, contentType |-> "text/plain", raw |-> EmptyText]}
    \cup {[hasBody |-> TRUE, contentType |-> "application/json", raw |-> x] : x \in Texts}

\* req.is('application/json') (34): null for a request without a body, false for
\* another media type, the type when it matches.
reqIs(req) ==
    IF ~req.hasBody THEN "null"
    ELSE IF req.contentType = "application/json" THEN "application/json"
    ELSE "false"

\* req.body as express.json (13) leaves it for a JSON request with a body: the
\* parsed value, and the empty object for a body of length 0.
reqBody(req) ==
    IF req.raw.t = "empty" THEN [t |-> "object"] ELSE req.raw.value

\* A serializer that writes spaces between tokens.
JSONStringify_Spaced(v) == JsonText(v, TRUE)

\* JSON.stringify (55)
JSONStringify(v) == JsonText(v, FALSE)

Responded(code, body) == <<[status |-> code, body |-> body]>>

\* The answer to a body without an envelope, as a rejection.
missingEnvelopeResponse_Rejects ==
    Responded(400, [ok |-> FALSE, published |-> FALSE,
                    reason |-> "missing DevEUI_uplink or DevEUI_location data"])

\* The answer to a body without an envelope (48).
missingEnvelopeResponse ==
    Responded(200, [ok |-> TRUE, published |-> FALSE,
                    reason |-> "missing DevEUI_uplink or DevEUI_location data"])

\* The handler (33-64) up to its call of client.publish: the response it sends at
\* once if any, the publish it hands to the client if any, and whether it threw
\* (Express then answers 500 itself).
handleIngest(req) ==
    IF reqIs(req) # "application/json"
    THEN [response |-> Responded(415, [error |-> "Content-Type must be application/json"]),
          publish |-> <<>>, threw |-> FALSE]
    ELSE LET payload == reqBody(req)
         IN  IF ~Truthy(payload)
             THEN [response |-> Responded(400, [error |-> "Missing JSON body"]),
                   publish |-> <<>>, threw |-> FALSE]
             ELSE LET msg == SelectEnvelope(payload)
                  IN  IF msg.t = "undefined"
                      THEN [response |-> missingEnvelopeResponse,
                            publish |-> <<>>, threw |-> FALSE]
                      ELSE IF Throws(msg)
                      THEN [response |-> Responded(500, [error |-> "unhandled exception"]),
                            publish |-> <<>>, threw |-> TRUE]
                      ELSE IF Get(msg, "DevEUI").t = "undefined"
                      THEN [response |-> Responded(400,
                                [ok |-> FALSE, published |-> FALSE,
                                 reason |-> "missing DevEUI in DevEUI_uplink or DevEUI_location"]),
                            publish |-> <<>>, threw |-> FALSE]
                      ELSE [response |-> <<>>,
                            publish |-> <<[topic |-> <<MQTT_TOPIC_PREFIX,
                                                       TemplateString(Get(msg, "DevEUI"))>>,
                                           message |-> JSONStringify(payload),
                                           qos |-> 0]>>,
                            threw |-> FALSE]

\* The publish callback (57-63): the response it sends.
publishCallback(err) ==
    IF err
    THEN Responded(500, [error |-> "Failed to publish to MQTT"])
    ELSE Responded(200, [ok |-> TRUE])

\* POST /ingest (33-64)
Ingest(req) ==
    /\ Len(requests) < MaxRequests
    /\ LET r == handleIngest(req)
       IN  requests' = Append(requests,
               [req |-> req, responses |-> r.response, publish |-> r.publish,
                pending |-> r.publish # <<>>])
    /\ UNCHANGED <<sessionVars, logVars, now, engine, bus>>

\* The client has sent the publish of request k, or failed to: it calls the
\* callback.  A QoS 0 publish made while the client is not connected is queued
\* until it is.
PublishCallback(k, err) ==
    /\ k \in 1..Len(requests)
    /\ requests[k].pending
    /\ bus = "connected"
    /\ requests' = [requests EXCEPT ![k].pending = FALSE,
                                    ![k].responses = @ \o publishCallback(err)]
    /\ UNCHANGED <<sessionVars, logVars, now, engine, bus>>

\* 'connect' (21-23)
BusConnect ==
    /\ bus = "connecting"
    /\ bus' = "connected"
    /\ UNCHANGED <<sessionVars, logVars, now, engine, requests>>

\* 'error' (29-31): the broker cannot be reached, or the connection is lost.
BusError ==
    /\ bus \in {"connecting", "connected"}
    /\ bus' = "offline"
    /\ UNCHANGED <<sessionVars, logVars, now, engine, requests>>

\* 'reconnect' (25-27): the client tries again after reconnectPeriod (17).
BusReconnect ==
    /\ bus = "offline"
    /\ bus' = "connecting"
    /\ UNCHANGED <<sessionVars, logVars, now, engine, requests>>

NextIngest ==
    \/ \E req \in Requests : Ingest(req)
    \/ \E k \in 1..MaxRequests, err \in BOOLEAN : PublishCallback(k, err)
    \/ BusConnect
    \/ BusError
    \/ BusReconnect

SpecIngest == Init /\ [][NextIngest]_vars

\* The client keeps its schedule: it sends what it can send and retries when it
\* is offline.  Whether the broker answers is not the bridge's to decide.
SpecIngestFair ==
    /\ SpecIngest
    /\ WF_vars(\E k \in 1..MaxRequests, err \in BOOLEAN : PublishCallback(k, err))
    /\ WF_vars(BusReconnect)
    /\ WF_vars(BusConnect \/ BusError)

----------------------------------------------------------------------------
(* Reconnection.                                                           *)

\* The step handles a close event / a reconnect timer's expiry.  (The first
\* conjunct of each follows from the second and is there to be evaluated first.)
CloseHandled ==
    /\ status' = SetState(status, "disconnected")
    /\ \E i \in 1..MaxClients : OnClose(i)
ReconnectTimerExpires ==
    /\ Len(reconnectTimers') < Len(reconnectTimers)
    /\ \E k \in 1..MaxClients : ReconnectTimerFires(k)

\* C1: a close event handled while the session is alive and the reconnect flag is
\* set leaves exactly one reconnect timer pending, however many close events
\* arrive before it expires, and makes no connection attempt itself; the timer is
\* pending only while the session is alive and the flag set; and its expiry is
\* exactly one connection attempt: the timer is gone, every older client is
\* force-closed and the current client is a new one.  (A disconnect, a cancel or
\* an unmount before the expiry clears the timer: then no attempt follows.)
C1_OneReconnectPerClose ==
    /\ [](/\ Len(reconnectTimers) <= 1
          /\ reconnectTimerRef = Len(reconnectTimers)
          /\ reconnectTimers # <<>> => activeRef /\ shouldReconnectRef)
    /\ [][(activeRef /\ shouldReconnectRef /\ CloseHandled)
            => /\ Len(reconnectTimers') = 1
               /\ reconnectTimerRef' = 1
               /\ created' = 0]_vars
    /\ [][ReconnectTimerExpires
            => /\ created' = 1
               /\ reconnectTimers' = <<>>
               /\ reconnectTimerRef' = 0
               /\ clientRef' = Len(clients')
               /\ clients'[clientRef'] = NewClient(reconnectTimers[1].topic)
               /\ \A j \in 1..(Len(clients') - 1) : clients'[j].ended]_vars

\* A reconnect timer has just expired and made its attempt: the step created a
\* client for a topic that is no longer the desired one, which only the callback of
\* a timer armed before the topic was edited does.
C1_Witness ==
    /\ created = 1
    /\ reconnectTimers = <<>>
    /\ shouldReconnectRef
    /\ clientRef # 0
    /\ clients[clientRef].state = "connecting"
    /\ clients[clientRef].topic # topic
    /\ configState = "pending"

\* C2: while the reconnect flag is cleared, which it is from a disconnect or a
\* cancel until the next explicit connect, no reconnect timer is pending, there is
\* no current client and every client left is force-closed; a disconnect or a
\* cancel clears the flag; and with the flag cleared the only step that makes a
\* connection attempt or sets the flag again is the explicit connect.
C2_NoAttemptAfterDisconnect ==
    /\ [](~shouldReconnectRef
            => /\ reconnectTimers = <<>>
               /\ reconnectTimerRef = 0
               /\ clientRef = 0
               /\ \A j \in 1..Len(clients) : clients[j].ended)
    /\ [][(Disconnect \/ Cancel) => ~shouldReconnectRef']_vars
    /\ [][(~shouldReconnectRef /\ (created' = 1 \/ shouldReconnectRef')) => Connect]_vars

\* After a disconnect the late close event of the force-closed client was handled,
\* the topic was edited, and the warm-up timer that edit scheduled has expired:
\* nothing is connected and nothing is pending.
C2_Witness ==
    /\ ~shouldReconnectRef
    /\ mounted
    /\ status = "disconnected"
    /\ topic # DEFAULT_TOPIC
    /\ configState = "pending"
    /\ initialTimers = 0
    /\ clients = <<>>

----------------------------------------------------------------------------
(* Topics.                                                                 *)

\* C3: the last-subscribed topic changes only in a step that handles a granted
\* subscribe for the topic it changes to.
C3_ActiveTopicOnlyOnSubscribeAck ==
    [][lastSubscribedTopicRef' # lastSubscribedTopicRef
        => \E i \in 1..MaxClients :
               /\ SubAck(i, TRUE)
               /\ Head(clients[i].ops).topic = lastSubscribedTopicRef']_vars

\* C4: when the subscribe of a resubscription is refused, and the broker held the
\* subscription to the last-subscribed topic when the resubscription began, the
\* client is still subscribed to the last-subscribed topic.
C4_StillSubscribedToOldTopic ==
    [][\A i \in 1..MaxClients :
          (/\ SubAck(i, FALSE)
           /\ Head(clients[i].ops).origin = "resub"
           /\ Head(clients[i].ops).held
           /\ Head(clients[i].ops).other = lastSubscribedTopicRef)
          => lastSubscribedTopicRef' \in clients'[i].subs]_vars

\* C5: when a subscribe issued by a connect handler is granted, the last-subscribed
\* topic is the desired topic.  Stated for sessions whose configuration has not
\* loaded, where only the topic field changes the desired topic, and it is enabled
\* only while the status is neither connected nor connecting.
C5_NewTopicOnNextConnect ==
    [][\A i \in 1..MaxClients :
          (/\ configState = "pending"
           /\ SubAck(i, TRUE)
           /\ Head(clients[i].ops).origin = "connect")
          => lastSubscribedTopicRef' = topic']_vars

----------------------------------------------------------------------------
(* Decoding.                                                               *)

\* The step runs the message handler on the payload in flight.
MessageHandled == inflight.t # "no message" /\ inflight'.t = "no message"

\* How the properties below read a payload: an envelope is a JSON object; the
\* location-update envelope is the one used when the payload has one, the uplink
\* envelope when DevEUI_location is absent or null.
IsEnvelope(x) == x.t = "object"
HasSelectedEnvelope(p) ==
    \/ IsEnvelope(Get(p, "DevEUI_location"))
    \/ Get(p, "DevEUI_location").t \in {"undefined", "null"}
         /\ IsEnvelope(Get(p, "DevEUI_uplink"))
SelectedEnvelope(p) ==
    IF IsEnvelope(Get(p, "DevEUI_location"))
    THEN Get(p, "DevEUI_location")
    ELSE Get(p, "DevEUI_uplink")
NumericCoordinates(env) ==
    Get(env, "DevLAT").t = "number" /\ Get(env, "DevLON").t = "number"

ValidPayload(p) ==
    p.t = "object" /\ HasSelectedEnvelope(p) /\ NumericCoordinates(SelectedEnvelope(p))

InvalidPayload(p) ==
    \/ p.t # "object"
    \/ ~IsEnvelope(Get(p, "DevEUI_location")) /\ ~IsEnvelope(Get(p, "DevEUI_uplink"))
    \/ HasSelectedEnvelope(p) /\ ~NumericCoordinates(SelectedEnvelope(p))

C7_InvalidPayloadDiscarded ==
    [][(MessageHandled /\ InvalidPayload(inflight))
        => /\ markers' = markers
           /\ outcome' \in {"returned", "caught"}
           /\ UNCHANGED <<status, lastError, topic, brokerUrl, clientRef, clients,
                          activeRef, shouldReconnectRef, reconnectTimerRef,
                          reconnectTimers, lastSubscribedTopicRef>>]_vars

\* After one record was appended, a payload made the handler throw; the exception
\* was caught and the log still holds the one record.
C7_Witness ==
    /\ outcome = "caught"
    /\ Len(markers) = 1
    /\ inflight.t = "no message"
    /\ status = "connected"

\* C8: the ids of the records of the log are pairwise distinct.  (An id is modelled
\* as the pair of the two strings the code joins with '-': equal pairs are equal
\* ids.)
C8_IdsDistinct ==
    \A i, j \in 1..Len(markers) : i # j => markers[i].id # markers[j].id

\* C9: the id of every record of the log is its device identifier joined to its
\* timestamp.
C9_IdIsDeviceIdAndTimestamp ==
    \A k \in 1..Len(markers) :
        markers[k].id = <<TemplateString(markers[k].devEui), markers[k].receivedAtTs.v>>

----------------------------------------------------------------------------
(* The sorted view.                                                        *)

Rearrangements(n) == {f \in [1..n -> 1..n] : \A a, b \in 1..n : a # b => f[a] # f[b]}

\* Record a is not after record b in the order of the spec: records without a
\* timestamp first, then ascending timestamps.
NotAfter(a, b) ==
    \/ a.receivedAtTs.t = "undefined"
    \/ b.receivedAtTs.t # "undefined" /\ a.receivedAtTs.v <= b.receivedAtTs.v

\* sorted is log rearranged by a permutation that puts the records in order and
\* keeps the arrival order of records neither of which is before the other.
IsStableSortOf(sorted, log) ==
    /\ Len(sorted) = Len(log)
    /\ \E f \in Rearrangements(Len(log)) :
          /\ \A k \in 1..Len(log) : sorted[k] = log[f[k]]
          /\ \A k, l \in 1..Len(log) :
                k < l => /\ NotAfter(log[f[k]], log[f[l]])
                         /\ NotAfter(log[f[l]], log[f[k]]) => f[k] < f[l]

C11_SegmentsJoinConsecutiveRecords ==
    /\ Len(segments) = (IF Len(sortedMarkers) = 0 THEN 0 ELSE Len(sortedMarkers) - 1)
    /\ \A i \in 1..Len(segments) :
          /\ segments[i][1] = sortedMarkers[i].coords
          /\ segments[i][2] = sortedMarkers[i + 1].coords

\* A rendered log of three records whose two segments differ.
C11_Witness ==
    /\ Len(markers) = 3
    /\ Len(sortedMarkers) = 3
    /\ Len(segments) = 2
    /\ segments[1] # segments[2]

----------------------------------------------------------------------------
(* The ingest bridge.                                                      *)

\* How the properties below read a request: it has the JSON media type when its
\* Content-Type says so; its body is absent when it has none and empty when its
\* text has length 0; otherwise the body is the JSON value of its text.
IsJsonRequest(req) == req.contentType = "application/json"
BodyAbsentOrEmpty(req) == ~req.hasBody \/ req.raw.t = "empty"
HasJsonBody(req) == IsJsonRequest(req) /\ ~BodyAbsentOrEmpty(req)
RejectedWith(entry, code) ==
    /\ Len(entry.responses) = 1
    /\ entry.responses[1].status = code
    /\ entry.publish = <<>>

\* C12: a handled request that has not the JSON media type was answered 415; one
\* that has it and whose body is absent or empty was answered 400; one with a JSON
\* body whose selected envelope has no device identifier was answered 400; and
\* nothing was published for any of them.
C12_RejectionsInOrder ==
    \A k \in 1..Len(requests) :
        LET entry == requests[k]
            req == entry.req
        IN  /\ ~IsJsonRequest(req) => RejectedWith(entry, 415)
            /\ (IsJsonRequest(req) /\ BodyAbsentOrEmpty(req)) => RejectedWith(entry, 400)
            /\ (/\ HasJsonBody(req)
                /\ HasSelectedEnvelope(req.raw.value)
                /\ Get(SelectedEnvelope(req.raw.value), "DevEUI").t = "undefined")
                 => RejectedWith(entry, 400)

\* A JSON body with no envelope: DevEUI_uplink is absent and DevEUI_location is
\* absent or null.
HasNoEnvelope(req) ==
    /\ HasJsonBody(req)
    /\ Get(req.raw.value, "DevEUI_uplink").t = "undefined"
    /\ Get(req.raw.value, "DevEUI_location").t \in {"undefined", "null"}

AnsweredNotPublished(entry, reason) ==
    /\ entry.responses =
           Responded(200, [ok |-> TRUE, published |-> FALSE, reason |-> reason])
    /\ entry.publish = <<>>

Accepted(req) ==
    /\ HasJsonBody(req)
    /\ HasSelectedEnvelope(req.raw.value)
    /\ Get(SelectedEnvelope(req.raw.value), "DevEUI").t # "undefined"

PublishedOnce(entry, message) ==
    /\ Len(entry.publish) = 1
    /\ entry.publish[1].topic =
           <<MQTT_TOPIC_PREFIX,
             TemplateString(Get(SelectedEnvelope(entry.req.raw.value), "DevEUI"))>>
    /\ entry.publish[1].qos = 0
    /\ entry.publish[1].message = message

\* C14, as the spec has it: for an accepted request exactly one publish was made,
\* to the prefix joined by '/' to the device identifier of the selected envelope,
\* at QoS 0, and its payload is the text of the request body as it arrived.
C14_PublishesOriginalText ==
    \A k \in 1..Len(requests) :
        Accepted(requests[k].req) => PublishedOnce(requests[k], requests[k].req.raw)

\* C14: for an accepted request exactly one publish was made, to the prefix joined
\* by '/' to the device identifier of the selected envelope, at QoS 0, and its
\* payload is the whole JSON value of the request body written without spacing.
C14_PublishesReserializedBody ==
    \A k \in 1..Len(requests) :
        Accepted(requests[k].req)
            => PublishedOnce(requests[k],
                             [t |-> "text", value |-> requests[k].req.raw.value,
                              spaced |-> FALSE])

\* An accepted request whose body was written with spaces has been published and
\* answered; its location-update envelope was selected over its uplink envelope.
C14_Witness ==
    /\ Len(requests) >= 1
    /\ Accepted(requests[1].req)
    /\ requests[1].req.raw.spaced
    /\ Get(requests[1].req.raw.value, "DevEUI_uplink").t = "object"
    /\ Get(requests[1].req.raw.value, "DevEUI_location").t = "object"
    /\ Len(requests[1].publish) = 1
    /\ Len(requests[1].responses) = 1

\* C15: no request gets two responses; an accepted request that was answered was
\* answered 500 or 200 {ok: true}; and every accepted request is eventually
\* answered, whatever the state of the bus connection.
C15_AcceptedRequestAnswered ==
    /\ [](\A k \in 1..Len(requests) :
            /\ Len(requests[k].responses) <= 1
            /\ (Accepted(requests[k].req) /\ requests[k].responses # <<>>)
                 => \/ requests[k].responses = Responded(200, [ok |-> TRUE])
                    \/ requests[k].responses[1].status = 500)
    /\ \A k \in 1..MaxRequests :
          (k <= Len(requests) /\ Accepted(requests[k].req))
              ~> (k <= Len(requests) /\ Len(requests[k].responses) = 1)

----------------------------------------------------------------------------
(* The terminal labels: disconnectClient (261-269) and the handlers        *)
(* registered on the client it force-closes (284-294, 340-354).            *)

TerminalLabels == {"disconnected (manual)", "disconnected (cancelled)"}

\* C16: once the status is "disconnected (manual)" or "disconnected (cancelled)"
\* it keeps that label until the user asks to connect: no other step, and so no
\* late event of the force-closed client, changes the status, and only the connect
\* request sets the reconnect flag again.
C16_TerminalLabelKept ==
    [][/\ (status \in TerminalLabels /\ status' # status) => Connect
       /\ (~shouldReconnectRef /\ shouldReconnectRef') => Connect]_vars

----------------------------------------------------------------------------
(* The subscribe the connect handler issues (284-294).                     *)

ConnectSubscribePending(i) ==
    /\ i \in 1..Len(clients)
    /\ ~clients[i].ended
    /\ clients[i].state = "connected"
    /\ clients[i].ops # <<>>
    /\ Head(clients[i].ops).kind = "sub"
    /\ Head(clients[i].ops).origin = "connect"

\* C17: when the broker refuses the subscribe that the connect handler issued, the
\* client stays connected (it is not closed or replaced, and no reconnect timer is
\* scheduled), lastError is set to the failure and the status is "subscribe error".
C17_SubscribeFailureReported ==
    [][\A i \in 1..MaxClients :
           (mounted /\ ConnectSubscribePending(i) /\ SubAck(i, FALSE))
               => /\ status' = "subscribe error"
                  /\ lastError' = ErrMsg
                  /\ Len(clients') = Len(clients)
                  /\ IsOpen(clients'[i])
                  /\ clients'[i].state = "connected"
                  /\ clientRef' = clientRef
                  /\ reconnectTimers' = reconnectTimers
                  /\ created' = 0]_vars

----------------------------------------------------------------------------
(* The warm-up timers (373-379, 381-398).                                  *)

\* C18: the warm-up timer is one-shot per session: a warm-up timer starts a
\* connection attempt only if no warm-up timer of the session did before.
C18_WarmUpAttemptsOnce ==
    [][(initialTimers' < initialTimers /\ InitialTimerFires /\ created' = 1)
           => ~warmUpAttempted]_vars

\* C19: after teardown no timer of the session is pending, neither a warm-up
\* timer nor a reconnect timer.
C19_NoTimerAfterTeardown ==
    ~mounted => (initialTimers = 0 /\ reconnectTimers = <<>>)

----------------------------------------------------------------------------
(* After teardown (381-398): the liveness check of connectToEndpoint       *)
(* (271-272), the guards of the close handler (348) and of the warm-up     *)
(* callback (375), and the handlers of the force-closed client (284-354).  *)

----------------------------------------------------------------------------
(* The log as a whole: setMarkers is called at line 333 and nowhere else.  *)

\* C21: the position log is append-only.  A step changes it only by handling a
\* payload the handler decodes into a record, and then it adds exactly one record
\* at the end; every other step (connect, reconnect, disconnect, cancel, error,
\* close, topic change, config load) leaves it as it is, and every record already
\* in the log keeps its position and all its fields.
C21_LogAppendOnly ==
    [][/\ markers' # markers
            => /\ MessageHandled
               /\ ValidPayload(inflight)
               /\ outcome' = "appended"
               /\ Len(markers') = Len(markers) + 1
       /\ Len(markers') >= Len(markers)
       /\ SubSeq(markers', 1, Len(markers)) = markers]_vars

\* The log holds two records and the session has since been disconnected by the
\* user, had its topic changed and its config loaded, and a close was handled.
C21_Witness ==
    /\ Len(markers) = 2
    /\ inflight.t = "no message"
    /\ status = "disconnected"
    /\ ~shouldReconnectRef
    /\ topic # DEFAULT_TOPIC
    /\ configState = "done"

----------------------------------------------------------------------------
(* The client objects: connectToEndpoint (271-283), disconnectClient        *)
(* (261-269) and the teardown cleanup (381-398).                           *)

\* C22: in every state at most one client that has not been force-closed exists,
\* and it is the one clientRef holds: every client created earlier was
\* force-closed before the current one was created.
C22_OneClientNotForceClosed ==
    \A i \in 1..Len(clients) : ~clients[i].ended => i = clientRef

\* A connection attempt has just replaced a client that was open: the old one is
\* force-closed with its close event still to come, the new one is current.
C22_Witness ==
    /\ created = 1
    /\ Len(clients) = 2
    /\ clients[1].ended
    /\ clients[1].closeDue
    /\ ~clients[2].ended
    /\ clientRef = 2

----------------------------------------------------------------------------
(* The reconnect timer and the connect request: clearReconnectTimer         *)
(* (254-259), the close handler (346-354) and connectRef (357-361).        *)

\* C23: a connect request leaves no reconnect timer pending that was scheduled
\* before it, so no such timer can later replace the client the request created.
C23_ConnectLeavesNoReconnectTimer ==
    [][(created' = 1 /\ Connect) => reconnectTimers' = <<>>]_vars

----------------------------------------------------------------------------
(* The sorted view and latestMarker (400-413) of a log whose timestamps    *)
(* were read from a clock that never went back (313).                      *)

\* Every record of the log has a timestamp and none is smaller than the one
\* before it.
StampedInArrivalOrder(log) ==
    /\ \A k \in 1..Len(log) : log[k].receivedAtTs.t = "number"
    /\ \A k \in 1..(Len(log) - 1) : log[k].receivedAtTs.v <= log[k + 1].receivedAtTs.v

\* C24: when the timestamps of the log never decrease in arrival order, the
\* rendered sorted view equals the log, and latestMarker is the record appended
\* last, undefined for an empty log.
C24_SortedViewIsArrivalOrder ==
    (Len(sortedMarkers) = Len(markers) /\ StampedInArrivalOrder(markers))
        => /\ sortedMarkers = markers
           /\ latestMarker = (IF Len(markers) = 0 THEN JUndefined
                              ELSE markers[Len(markers)])

\* A rendered log of three records, the first two with the same timestamp and
\* from different devices, sorted by the insertion sort of SpiderMonkey.
C24_Witness ==
    /\ engine = "spidermonkey"
    /\ Len(markers) = 3
    /\ Len(sortedMarkers) = 3
    /\ StampedInArrivalOrder(markers)
    /\ markers[1].receivedAtTs = markers[2].receivedAtTs
    /\ markers[1].devEui # markers[2].devEui
    /\ markers[2].receivedAtTs # markers[3].receivedAtTs
    /\ latestMarker = markers[3]

=============================================================================
